---- MODULE Spec2Model ----
(***************************************************************************)
(* SkidRC backend: order intake, product catalog (list / add / delete) and *)
(* the static-secret admin guard, over a Firestore document store with an  *)
(* in-memory fallback.  Each request is a small process: it arrives, its   *)
(* middleware chain and handler run up to the first awaited store call,    *)
(* and every awaited store call completes (with success or failure) in a   *)
(* later step; a store call that never returns is a step that is never     *)
(* taken.                                                                  *)
(***************************************************************************)
EXTENDS Integers, Sequences, FiniteSets, TLC

(* ---------------------------- bounds ----------------------------------- *)
MaxRequests == 3          \* requests accepted in one behaviour
MaxTime     == 1          \* the server clock runs 0..MaxTime
MaxInFlight == 2          \* requests being handled at the same time

(* ---------------------------- inputs ----------------------------------- *)
Slots       == 1..MaxInFlight
Secrets     == {"", "s3cret"}                \* process.env.ADMIN_SECRET
HeaderVals  == {"", "s3cret", "S3CRET"}      \* x-admin-secret, when sent
RandTokens  == {"a", "b"}                    \* Math.random().toString(36).slice(2, 8)
ParamIds    == {"x", "d1", "0_a"}            \* :id path parameters

\* what happens in the try block of the Firebase setup: it runs through, JSON.parse throws
\* on FIREBASE_SERVICE_ACCOUNT, require('./serviceAccountKey.json') throws, or
\* cert / initializeApp rejects the credentials
StartupOutcomes == {"ok", "malformed_json", "missing_key_file", "invalid_credentials"}

Opt(S)      == {<<>>} \cup {<<v>> : v \in S}
Empty       == <<>>

\* request bodies: JSON objects as functions from field names to values; `name` and `price`
\* hold tagged JavaScript values <<type, text>>, `id` and `status` strings, `createdAt` a time
WheelSet == [name |-> <<"string", "Wheel Set">>, price |-> <<"number", "49.99">>]

ProductBodies ==
  { WheelSet,
    [name |-> <<"string", "Wheel Set">>, price |-> <<"number", "49.99">>, id |-> "x", createdAt |-> 9],
    [name |-> <<"string", "Wheel Set">>, price |-> <<"string", "49.99">>],
    [name |-> <<"string", "">>, price |-> <<"number", "49.99">>],
    Empty }

OrderBodies ==
  { [item |-> "car", status |-> "Shipped", createdAt |-> 0],
    [item |-> "car", id |-> "x"] }

(* ------------------------ JavaScript values ---------------------------- *)
Undefined == <<"undefined", "">>

\* o.k for the fields whose values are tagged <<type, text>>
Get(o, k) == IF k \in DOMAIN o THEN o[k] ELSE Undefined

TypeOf(v) == v[1]

\* ToBoolean
Truthy(v) ==
  CASE v[1] = "undefined" -> FALSE
    [] v[1] = "string"    -> v[2] # ""
    [] v[1] = "number"    -> v[2] \notin {"0", "NaN"}
    [] OTHER              -> TRUE

\* o.k = v
Assign(o, k, v) == [f \in (DOMAIN o) \cup {k} |-> IF f = k THEN v ELSE o[f]]

\* { ...base, ...o }: the later spread wins
Spread(base, o) == [f \in (DOMAIN base) \cup (DOMAIN o) |-> IF f \in DOMAIN o THEN o[f] ELSE base[f]]

\* `${Date.now()}_${Math.random().toString(36).slice(2, 8)}`
SynthId(t, r) == ToString(t) \o "_" \o r

(* ------------------------------ state ---------------------------------- *)
VARIABLES
  ADMIN_SECRET,       \* process.env.ADMIN_SECRET ("" when unset)
  startup,            \* how the Firebase setup of this process went
  db,                 \* the document-store client ("null" when there is none)
  isDbAvailable,      \* storage mode
  inMemoryProducts,   \* sequence of product objects
  inMemoryOrders,     \* sequence of order objects
  dbProducts,         \* Firestore 'products': sequence of [id, data], in insertion order
  dbOrders,           \* Firestore 'orders'
  now,                \* server clock
  reqs,               \* the requests being handled, by slot
  accepted,           \* number of requests accepted so far
  res,                \* the latest response sent
  autoIds             \* number of document ids the store has generated

vars == <<ADMIN_SECRET, startup, db, isDbAvailable, inMemoryProducts, inMemoryOrders, dbProducts,
          dbOrders, now, reqs, accepted, res, autoIds>>

\* A request: what it is (kind, header, time of arrival, the body and the :id parameter once
\* the handler has read them, and for a list the number of responses sent before it was
\* accepted), and what its handler holds while suspended (pc, the stamped object, the time
\* of the stamp, the snapshot of delete-all).
Idle == [kind |-> "none", pc |-> "idle", arrived |-> 0, seen |-> 0, header |-> <<>>,
         sent |-> Empty, param |-> "", data |-> Empty, stamp |-> 0, snap |-> {}]

\* A response: status and JSON body (rec: a product; items: a product list; orderId),
\* the request it answers, the collection that served it and the id the server generated.
NoRes == [n |-> 0, kind |-> "none", status |-> 0, rec |-> Empty, items |-> <<>>, orderId |-> "",
          from |-> "none", genId |-> "", arrived |-> 0, seen |-> 0, header |-> <<>>,
          sent |-> Empty, param |-> "", stamp |-> 0]

\* res.status(status).json(...): the response becomes the latest response
Respond(r, status, rec, items, orderId, from, genId) ==
  [n |-> res.n + 1, kind |-> r.kind, status |-> status, rec |-> rec, items |-> items,
   orderId |-> orderId, from |-> from, genId |-> genId, arrived |-> r.arrived, seen |-> r.seen,
   header |-> r.header, sent |-> r.sent, param |-> r.param, stamp |-> r.stamp]

(* --------------------------- admin guard ------------------------------- *)
\* req.headers['x-admin-secret'] || ''
Provided(h) == IF Len(h) = 0 THEN "" ELSE h[1]

\* the guard without the `if (!expected)` branch: an unset secret matches an empty header
requireAdminFailOpen(h, expected) ==
  IF Provided(h) # expected THEN "401" ELSE "next"

\* the guard that only asks for some header to be present
requireAdminAnyHeader(h, expected) ==
  IF expected = "" THEN "503"
  ELSE IF Provided(h) = "" THEN "401"
  ELSE "next"

requireAdmin(h, expected) ==
  IF expected = "" THEN "503"
  ELSE IF Provided(h) # expected THEN "401"
  ELSE "next"

(* ------------------------- product validation -------------------------- *)
\* the validation without the `typeof product.price` test
ValidProductNameOnly(product) == Truthy(Get(product, "name"))

\* !( !product.name || typeof product.price !== 'number' )
ValidProduct(product) ==
  ~( ~Truthy(Get(product, "name")) \/ TypeOf(Get(product, "price")) # "number" )

(* --------------------------- document store ---------------------------- *)
Range(q) == {q[i] : i \in 1..Len(q)}

\* collection.add(): the n-th auto-generated document id (never reused)
AutoId(n) == "d" \o ToString(n)

DbAdd(coll, id, data) == Append(coll, [id |-> id, data |-> data])

\* doc(id).delete(): succeeds whether or not the document exists
DbDelete(coll, id) == SelectSeq(coll, LAMBDA d : d.id # id)

\* a commit that deletes whatever the collection holds by then
BatchDeleteAll(coll, ids) == SelectSeq(coll, LAMBDA d : FALSE)

\* batch.delete(ref) for each ref, then batch.commit()
BatchDelete(coll, ids) == SelectSeq(coll, LAMBDA d : d.id \notin ids)

\* orderBy('createdAt', 'desc'): the orders of the documents in which createdAt never
\* increases; documents with equal createdAt come in an order the handler does not control
RECURSIVE Perms(_)
Perms(S) ==
  IF S = {} THEN {<<>>}
  ELSE UNION { { <<d>> \o q : q \in Perms(S \ {d}) } : d \in S }

OrderByCreatedAtDesc(coll) ==
  { q \in Perms(Range(coll)) :
      \A i \in 1..(Len(q) - 1) : q[i].data.createdAt >= q[i + 1].data.createdAt }

\* snapshot.docs.map(doc => ({ id: doc.id, ...doc.data() }))
DocsToItems(docs) == [i \in 1..Len(docs) |-> Spread([id |-> docs[i].id], docs[i].data)]

(* -------------------------- in-memory store ---------------------------- *)
\* the insertion at the tail, as push does
unshiftAtTail(q, x) == q \o <<x>>

unshift(q, x) == <<x>> \o q

\* findIndex(p => p.id === id): 0 stands for -1
findIndex(q, id) ==
  IF \E i \in 1..Len(q) : q[i].id = id
  THEN CHOOSE i \in 1..Len(q) : q[i].id = id /\ \A j \in 1..(i - 1) : q[j].id # id
  ELSE 0

\* splice(idx, 1)
splice1(q, idx) == [i \in 1..(Len(q) - 1) |-> IF i < idx THEN q[i] ELSE q[i + 1]]

(* ---------------------------- requests --------------------------------- *)
FreeSlots == {s \in Slots : reqs[s].pc = "idle"}

\* a server that takes the next request only when no handler is suspended
AcceptSerial(s) ==
  /\ accepted < MaxRequests
  /\ FreeSlots = Slots
  /\ s \in FreeSlots /\ \A g \in FreeSlots : s <= g
  /\ accepted' = accepted + 1

\* a request is taken into the lowest free slot
Accept(s) ==
  /\ accepted < MaxRequests
  /\ s \in FreeSlots /\ \A g \in FreeSlots : s <= g
  /\ accepted' = accepted + 1

New(kind, h) == [Idle EXCEPT !.kind = kind, !.header = h]

\* the handler suspends at an awaited store call
Await(s, r, pc) == reqs' = [reqs EXCEPT ![s] = [r EXCEPT !.pc = pc]]

Finish(s) == reqs' = [reqs EXCEPT ![s] = Idle]

\* the setup that raises the flag before the client is made
FirebaseSetupFlagFirst(outcome) ==
  IF outcome \in {"malformed_json", "missing_key_file"} THEN [db |-> "null", isDbAvailable |-> FALSE]
  ELSE IF outcome = "invalid_credentials" THEN [db |-> "null", isDbAvailable |-> TRUE]
  ELSE [db |-> "firestore", isDbAvailable |-> TRUE]

\* let db = null; let isDbAvailable = false; try { ... } catch (err) { console.warn(...) }
FirebaseSetup(outcome) ==
  LET unset == [db |-> "null", isDbAvailable |-> FALSE]
  IN  IF outcome \in {"malformed_json", "missing_key_file"} THEN unset   \* JSON.parse / require throws
      ELSE IF outcome = "invalid_credentials" THEN unset                 \* cert / initializeApp throws
      ELSE [unset EXCEPT !.db = "firestore", !.isDbAvailable = TRUE]

Init ==
  /\ ADMIN_SECRET \in Secrets
  /\ startup \in StartupOutcomes
  /\ db = FirebaseSetup(startup).db
  /\ isDbAvailable = FirebaseSetup(startup).isDbAvailable
  /\ inMemoryProducts = <<>>
  /\ inMemoryOrders = <<>>
  /\ dbProducts = <<>>
  /\ dbOrders = <<>>
  /\ now = 0
  /\ reqs = [s \in Slots |-> Idle]
  /\ accepted = 0
  /\ res = NoRes
  /\ autoIds = 0

Tick ==
  /\ now < MaxTime
  /\ now' = now + 1
  /\ UNCHANGED <<ADMIN_SECRET, startup, db, isDbAvailable, inMemoryProducts, inMemoryOrders, dbProducts,
                 dbOrders, reqs, accepted, res, autoIds>>

(* ----------------------- POST /api/create-order ------------------------ *)
\* the stamping that leaves a `status` and a `createdAt` of the payload in place
StampOrderKeep(body, t) == Spread([createdAt |-> t, status |-> "Processing"], body)

\* orderData.createdAt = new Date(); orderData.status = 'Processing'
StampOrder(body, t) == Assign(Assign(body, "createdAt", t), "status", "Processing")

\* the handler of src/backend/server.js: the insert is awaited whatever the storage mode
CreateOrderStoreOnly(s) ==
  /\ Accept(s)
  /\ \E t \in 0..now, body \in OrderBodies :
       Await(s, [New("order", <<>>) EXCEPT !.arrived = t, !.sent = body,
                                          !.data = StampOrder(body, now), !.stamp = now],
             "await_add")
  /\ UNCHANGED <<ADMIN_SECRET, startup, db, isDbAvailable, inMemoryProducts, inMemoryOrders,
                 dbProducts, dbOrders, now, res, autoIds>>

\* the request arrived at some time t up to now; the handler runs up to the awaited insert
CreateOrder(s) ==
  /\ Accept(s)
  /\ \E t \in 0..now, body \in OrderBodies :
       LET orderData == StampOrder(body, now)
           r == [New("order", <<>>) EXCEPT !.arrived = t, !.sent = body, !.data = orderData,
                                          !.stamp = now]
       IN  IF isDbAvailable
           THEN /\ Await(s, r, "await_add")
                /\ UNCHANGED <<inMemoryOrders, res>>
           ELSE \E tok \in RandTokens :
                  LET id == SynthId(now, tok)
                  IN  /\ inMemoryOrders' = Append(inMemoryOrders, Spread([id |-> id], orderData))
                      /\ res' = Respond(r, 200, Empty, <<>>, id, "memory", id)
                      /\ Finish(s)
  /\ UNCHANGED <<ADMIN_SECRET, startup, db, isDbAvailable, inMemoryProducts, dbProducts, dbOrders, now,
                 autoIds>>

\* `await db.collection('orders').add(orderData)` returned a reference
CreateOrderSaved(s) ==
  /\ reqs[s].pc = "await_add" /\ reqs[s].kind = "order"
  /\ LET id == AutoId(autoIds + 1)
     IN  /\ dbOrders' = DbAdd(dbOrders, id, reqs[s].data)
         /\ res' = Respond(reqs[s], 200, Empty, <<>>, id, "store", id)
  /\ autoIds' = autoIds + 1
  /\ Finish(s)
  /\ UNCHANGED <<ADMIN_SECRET, startup, db, isDbAvailable, inMemoryProducts, inMemoryOrders, dbProducts, now,
                 accepted>>

\* an order intake that falls back to the in-memory collection, as the product add does
CreateOrderFellBack(s) ==
  /\ reqs[s].pc = "await_add" /\ reqs[s].kind = "order"
  /\ \E tok \in RandTokens :
       LET id == SynthId(now, tok)
       IN  /\ inMemoryOrders' = Append(inMemoryOrders, Spread([id |-> id], reqs[s].data))
           /\ res' = Respond(reqs[s], 200, Empty, <<>>, id, "memory", id)
  /\ Finish(s)
  /\ UNCHANGED <<ADMIN_SECRET, startup, db, isDbAvailable, inMemoryProducts, dbProducts, dbOrders, now,
                 accepted, autoIds>>

\* it threw: the catch block answers 500
CreateOrderFailed(s) ==
  /\ reqs[s].pc = "await_add" /\ reqs[s].kind = "order"
  /\ res' = Respond(reqs[s], 500, Empty, <<>>, "", "none", "")
  /\ Finish(s)
  /\ UNCHANGED <<ADMIN_SECRET, startup, db, isDbAvailable, inMemoryProducts, inMemoryOrders, dbProducts,
                 dbOrders, now, accepted, autoIds>>

(* -------------------------- GET /api/products -------------------------- *)
ListProducts(s) ==
  /\ Accept(s)
  /\ LET r == [New("list", <<>>) EXCEPT !.seen = res.n]
     IN  IF isDbAvailable
         THEN /\ Await(s, r, "await_query")
              /\ UNCHANGED res
         ELSE /\ res' = Respond(r, 200, Empty, inMemoryProducts, "", "memory", "")
              /\ Finish(s)
  /\ UNCHANGED <<ADMIN_SECRET, startup, db, isDbAvailable, inMemoryProducts, inMemoryOrders, dbProducts,
                 dbOrders, now, autoIds>>

\* the query returned a snapshot
ListProductsFetched(s) ==
  /\ reqs[s].pc = "await_query" /\ reqs[s].kind = "list"
  /\ \E docs \in OrderByCreatedAtDesc(dbProducts) :
       res' = Respond(reqs[s], 200, Empty, DocsToItems(docs), "", "store", "")
  /\ Finish(s)
  /\ UNCHANGED <<ADMIN_SECRET, startup, db, isDbAvailable, inMemoryProducts, inMemoryOrders, dbProducts,
                 dbOrders, now, accepted, autoIds>>

\* a list that surfaces the failed query as an error
ListProductsFailed500(s) ==
  /\ reqs[s].pc = "await_query" /\ reqs[s].kind = "list"
  /\ res' = Respond(reqs[s], 500, Empty, <<>>, "", "none", "")
  /\ Finish(s)
  /\ UNCHANGED <<ADMIN_SECRET, startup, db, isDbAvailable, inMemoryProducts, inMemoryOrders, dbProducts,
                 dbOrders, now, accepted, autoIds>>

\* a list whose catch block also gives up on the store for the rest of the process
ListProductsFailedTrips(s) ==
  /\ reqs[s].pc = "await_query" /\ reqs[s].kind = "list"
  /\ res' = Respond(reqs[s], 200, Empty, inMemoryProducts, "", "memory", "")
  /\ isDbAvailable' = FALSE
  /\ Finish(s)
  /\ UNCHANGED <<ADMIN_SECRET, startup, db, inMemoryProducts, inMemoryOrders, dbProducts,
                 dbOrders, now, accepted, autoIds>>

\* the query threw (catch innerErr): the in-memory collection is returned
ListProductsFailed(s) ==
  /\ reqs[s].pc = "await_query" /\ reqs[s].kind = "list"
  /\ res' = Respond(reqs[s], 200, Empty, inMemoryProducts, "", "memory", "")
  /\ Finish(s)
  /\ UNCHANGED <<ADMIN_SECRET, startup, db, isDbAvailable, inMemoryProducts, inMemoryOrders, dbProducts,
                 dbOrders, now, accepted, autoIds>>

(* ---------------------- POST /api/admin/products ----------------------- *)
\* the response of requireAdmin when it does not call next()
Denied(r, guard) == Respond(r, IF guard = "503" THEN 503 ELSE 401, Empty, <<>>, "", "none", "")

\* const toStore = { id, ...product }
ToStore(id, product) == Spread([id |-> id], product)

\* requireAdmin, then the handler up to `await db.collection('products').add(product)`.
\* The outer catch of the handler is not a step: nothing outside the inner try throws.
AddProduct(s) ==
  /\ Accept(s)
  /\ \E h \in Opt(HeaderVals) :
       LET guard == requireAdmin(h, ADMIN_SECRET)
       IN  IF guard # "next"
           THEN /\ res' = Denied(New("add", h), guard)
                /\ Finish(s)
                /\ UNCHANGED inMemoryProducts
           ELSE \E body \in ProductBodies :
                  IF ~ValidProduct(body)
                  THEN /\ res' = Respond([New("add", h) EXCEPT !.sent = body], 400, Empty, <<>>,
                                         "", "none", "")
                       /\ Finish(s)
                       /\ UNCHANGED inMemoryProducts
                  ELSE LET product == Assign(body, "createdAt", now)
                           r == [New("add", h) EXCEPT !.sent = body, !.data = product,
                                                      !.stamp = now]
                       IN  IF isDbAvailable
                           THEN /\ Await(s, r, "await_add")
                                /\ UNCHANGED <<inMemoryProducts, res>>
                           ELSE \E tok \in RandTokens :
                                  LET id == SynthId(now, tok)
                                      toStore == ToStore(id, product)
                                  IN  /\ inMemoryProducts' = unshift(inMemoryProducts, toStore)
                                      /\ res' = Respond(r, 201, toStore, <<>>, "", "memory", id)
                                      /\ Finish(s)
  /\ UNCHANGED <<ADMIN_SECRET, startup, db, isDbAvailable, inMemoryOrders, dbProducts, dbOrders, now, autoIds>>

\* the store insert succeeded: res.status(201).json({ id: ref.id, ...product })
AddProductSaved(s) ==
  /\ reqs[s].pc = "await_add" /\ reqs[s].kind = "add"
  /\ LET id == AutoId(autoIds + 1)
     IN  /\ dbProducts' = DbAdd(dbProducts, id, reqs[s].data)
         /\ res' = Respond(reqs[s], 201, ToStore(id, reqs[s].data), <<>>, "", "store", id)
  /\ autoIds' = autoIds + 1
  /\ Finish(s)
  /\ UNCHANGED <<ADMIN_SECRET, startup, db, isDbAvailable, inMemoryProducts, inMemoryOrders, dbOrders, now,
                 accepted>>

\* the store insert threw (catch innerErr): the product goes to the in-memory collection
AddProductFellBack(s) ==
  /\ reqs[s].pc = "await_add" /\ reqs[s].kind = "add"
  /\ \E tok \in RandTokens :
       LET id == SynthId(now, tok)
           toStore == ToStore(id, reqs[s].data)
       IN  /\ inMemoryProducts' = unshift(inMemoryProducts, toStore)
           /\ res' = Respond(reqs[s], 201, toStore, <<>>, "", "memory", id)
  /\ Finish(s)
  /\ UNCHANGED <<ADMIN_SECRET, startup, db, isDbAvailable, inMemoryOrders, dbProducts, dbOrders, now,
                 accepted, autoIds>>

(* --------------------- DELETE /api/admin/products ---------------------- *)
\* a delete-all whose in-memory branch empties the orders along with the products
DeleteAllAlsoOrders(s) ==
  /\ Accept(s)
  /\ \E h \in Opt(HeaderVals) :
       LET guard == requireAdmin(h, ADMIN_SECRET)
           r == New("delall", h)
       IN  IF guard # "next"
           THEN /\ res' = Denied(r, guard)
                /\ Finish(s)
                /\ UNCHANGED <<inMemoryProducts, inMemoryOrders>>
           ELSE IF isDbAvailable
                THEN /\ Await(s, r, "await_get")
                     /\ UNCHANGED <<inMemoryProducts, inMemoryOrders, res>>
                ELSE /\ inMemoryProducts' = <<>>
                     /\ inMemoryOrders' = <<>>
                     /\ res' = Respond(r, 200, Empty, <<>>, "", "memory", "")
                     /\ Finish(s)
  /\ UNCHANGED <<ADMIN_SECRET, startup, db, isDbAvailable, dbProducts, dbOrders, now, autoIds>>

DeleteAll(s) ==
  /\ Accept(s)
  /\ \E h \in Opt(HeaderVals) :
       LET guard == requireAdmin(h, ADMIN_SECRET)
           r == New("delall", h)
       IN  IF guard # "next"
           THEN /\ res' = Denied(r, guard)
                /\ Finish(s)
                /\ UNCHANGED inMemoryProducts
           ELSE IF isDbAvailable
                THEN /\ Await(s, r, "await_get")
                     /\ UNCHANGED <<inMemoryProducts, res>>
                ELSE /\ inMemoryProducts' = <<>>
                     /\ res' = Respond(r, 200, Empty, <<>>, "", "memory", "")
                     /\ Finish(s)
  /\ UNCHANGED <<ADMIN_SECRET, startup, db, isDbAvailable, inMemoryOrders, dbProducts, dbOrders, now, autoIds>>

\* `await db.collection('products').get()` returned: the batch is built from this snapshot
DeleteAllFetched(s) ==
  /\ reqs[s].pc = "await_get" /\ reqs[s].kind = "delall"
  /\ Await(s, [reqs[s] EXCEPT !.snap = {d.id : d \in Range(dbProducts)}], "await_commit")
  /\ UNCHANGED <<ADMIN_SECRET, startup, db, isDbAvailable, inMemoryProducts, inMemoryOrders, dbProducts,
                 dbOrders, now, accepted, res, autoIds>>

\* a delete-all that empties the in-memory collection as well once the batch is committed
DeleteAllCommittedBoth(s) ==
  /\ reqs[s].pc = "await_commit" /\ reqs[s].kind = "delall"
  /\ dbProducts' = BatchDelete(dbProducts, reqs[s].snap)
  /\ inMemoryProducts' = <<>>
  /\ res' = Respond(reqs[s], 200, Empty, <<>>, "", "store", "")
  /\ Finish(s)
  /\ UNCHANGED <<ADMIN_SECRET, startup, db, isDbAvailable, inMemoryOrders, dbOrders, now,
                 accepted, autoIds>>

\* `await batch.commit()` returned
DeleteAllCommitted(s) ==
  /\ reqs[s].pc = "await_commit" /\ reqs[s].kind = "delall"
  /\ dbProducts' = BatchDelete(dbProducts, reqs[s].snap)
  /\ res' = Respond(reqs[s], 200, Empty, <<>>, "", "store", "")
  /\ Finish(s)
  /\ UNCHANGED <<ADMIN_SECRET, startup, db, isDbAvailable, inMemoryProducts, inMemoryOrders, dbOrders, now,
                 accepted, autoIds>>

\* either store call threw: the catch block answers 500
DeleteAllFailed(s) ==
  /\ reqs[s].pc \in {"await_get", "await_commit"} /\ reqs[s].kind = "delall"
  /\ res' = Respond(reqs[s], 500, Empty, <<>>, "", "none", "")
  /\ Finish(s)
  /\ UNCHANGED <<ADMIN_SECRET, startup, db, isDbAvailable, inMemoryProducts, inMemoryOrders, dbProducts,
                 dbOrders, now, accepted, autoIds>>

(* ------------------- DELETE /api/admin/products/:id -------------------- *)
\* the removal without the `idx !== -1` test: splice(-1, 1) removes the last element
RemoveByIdNoCheck(q, id) ==
  IF findIndex(q, id) # 0 THEN splice1(q, findIndex(q, id))
  ELSE IF Len(q) > 0 THEN splice1(q, Len(q)) ELSE q

\* const idx = findIndex(...); if (idx !== -1) inMemoryProducts.splice(idx, 1)
RemoveById(q, id) == IF findIndex(q, id) # 0 THEN splice1(q, findIndex(q, id)) ELSE q

DeleteOne(s) ==
  /\ Accept(s)
  /\ \E h \in Opt(HeaderVals) :
       LET guard == requireAdmin(h, ADMIN_SECRET)
       IN  IF guard # "next"
           THEN /\ res' = Denied(New("delone", h), guard)
                /\ Finish(s)
                /\ UNCHANGED inMemoryProducts
           ELSE \E id \in ParamIds :
                  LET r == [New("delone", h) EXCEPT !.param = id]
                  IN  IF isDbAvailable
                      THEN /\ Await(s, r, "await_delete")
                           /\ UNCHANGED <<inMemoryProducts, res>>
                      ELSE /\ inMemoryProducts' = RemoveById(inMemoryProducts, id)
                           /\ res' = Respond(r, 200, Empty, <<>>, "", "memory", "")
                           /\ Finish(s)
  /\ UNCHANGED <<ADMIN_SECRET, startup, db, isDbAvailable, inMemoryOrders, dbProducts, dbOrders, now, autoIds>>

\* `await db.collection('products').doc(id).delete()` returned
DeleteOneDone(s) ==
  /\ reqs[s].pc = "await_delete" /\ reqs[s].kind = "delone"
  /\ dbProducts' = DbDelete(dbProducts, reqs[s].param)
  /\ res' = Respond(reqs[s], 200, Empty, <<>>, "", "store", "")
  /\ Finish(s)
  /\ UNCHANGED <<ADMIN_SECRET, startup, db, isDbAvailable, inMemoryProducts, inMemoryOrders, dbOrders, now,
                 accepted, autoIds>>

\* it threw: the catch block answers 500
DeleteOneFailed(s) ==
  /\ reqs[s].pc = "await_delete" /\ reqs[s].kind = "delone"
  /\ res' = Respond(reqs[s], 500, Empty, <<>>, "", "none", "")
  /\ Finish(s)
  /\ UNCHANGED <<ADMIN_SECRET, startup, db, isDbAvailable, inMemoryProducts, inMemoryOrders, dbProducts,
                 dbOrders, now, accepted, autoIds>>

(* --------------------------- specifications ---------------------------- *)
NextOrders ==
  \/ \E s \in Slots : CreateOrder(s)
  \/ \E s \in Slots : CreateOrderSaved(s)
  \/ \E s \in Slots : CreateOrderFailed(s)

NextCatalog ==
  \/ \E s \in Slots : ListProducts(s)
  \/ \E s \in Slots : ListProductsFetched(s)
  \/ \E s \in Slots : ListProductsFailed(s)
  \/ \E s \in Slots : AddProduct(s)
  \/ \E s \in Slots : AddProductSaved(s)
  \/ \E s \in Slots : AddProductFellBack(s)
  \/ \E s \in Slots : DeleteAll(s)
  \/ \E s \in Slots : DeleteAllFetched(s)
  \/ \E s \in Slots : DeleteAllCommitted(s)
  \/ \E s \in Slots : DeleteAllFailed(s)
  \/ \E s \in Slots : DeleteOne(s)
  \/ \E s \in Slots : DeleteOneDone(s)
  \/ \E s \in Slots : DeleteOneFailed(s)

Next == Tick \/ NextOrders \/ NextCatalog

\* every endpoint
Spec == Init /\ [][Next]_vars

\* the order endpoint alone
SpecOrders == Init /\ [][Tick \/ NextOrders]_vars

\* the product endpoints alone
SpecCatalog == Init /\ [][Tick \/ NextCatalog]_vars

(* ------------------------------ claims --------------------------------- *)
AdminKinds == {"add", "delall", "delone"}

\* a response is sent in this step
Answered == res'.n = res.n + 1

\* a request is accepted in this step, and what it is
Taken == accepted' = accepted + 1

TakenReq ==
  LET s == CHOOSE f \in FreeSlots : \A g \in FreeSlots : f <= g
  IN  IF reqs'[s].pc # "idle" THEN [kind |-> reqs'[s].kind, header |-> reqs'[s].header]
      ELSE [kind |-> res'.kind, header |-> res'.header]

\* the request carries exactly the configured secret
Authorised(r) == ADMIN_SECRET # "" /\ r.header = <<ADMIN_SECRET>>

TruthyName(b) == "name" \in DOMAIN b /\ b.name[1] = "string" /\ b.name[2] # ""

NumericPrice(b) == "price" \in DOMAIN b /\ b.price[1] = "number"

ProductsUnchanged == UNCHANGED <<dbProducts, inMemoryProducts>>

NoProducts == Len(dbProducts) = 0 /\ Len(inMemoryProducts) = 0

\* C1: every authorised add with a truthy name and a numeric price is answered 201 with a
\* record made of exactly the submitted fields plus `id`, the identifier the server generated,
\* and `createdAt`, the server's timestamp.
C1_AddReturnsRecord ==
  (res.kind = "add" /\ Authorised(res) /\ TruthyName(res.sent) /\ NumericPrice(res.sent))
    => /\ res.status = 201
       /\ DOMAIN res.rec = (DOMAIN res.sent) \cup {"id", "createdAt"}
       /\ \A f \in (DOMAIN res.sent) \ {"id", "createdAt"} : res.rec[f] = res.sent[f]
       /\ res.rec.id = res.genId
       /\ res.rec.createdAt = res.stamp

\* C2: an authorised add whose body lacks a truthy name or a numeric price is answered 400
\* and leaves both product collections as they were; no insert of such a body is ever awaited.
C2_InvalidRejected ==
  [][ /\ (Answered /\ res'.kind = "add" /\ Authorised(res')
            /\ ~(TruthyName(res'.sent) /\ NumericPrice(res'.sent)))
         => (res'.status = 400 /\ ProductsUnchanged /\ UNCHANGED autoIds)
      /\ \A s \in Slots : (reqs'[s].kind = "add" /\ reqs'[s].pc = "await_add")
           => (TruthyName(reqs'[s].sent) /\ NumericPrice(reqs'[s].sent)) ]_vars

C2_Witness ==
  /\ res.kind = "add" /\ res.status = 400 /\ Authorised(res)
  /\ TruthyName(res.sent) /\ ~NumericPrice(res.sent)
  /\ ~NoProducts

\* C3: with no admin secret configured, every admin request is answered 503 whatever header
\* it carries, no admin handler is ever entered (none reads a body or a parameter, none
\* awaits a store call) and no collection changes.
C3_NoSecret503 ==
  [][ ADMIN_SECRET = ""
        => /\ (Taken /\ TakenReq.kind \in AdminKinds)
                => (Answered /\ res'.status = 503 /\ res'.kind = TakenReq.kind
                      /\ DOMAIN res'.sent = {} /\ res'.param = "")
           /\ \A s \in Slots : reqs'[s].kind \notin AdminKinds
           /\ (Answered /\ res'.kind \in AdminKinds)
                => UNCHANGED <<dbProducts, dbOrders, inMemoryProducts, inMemoryOrders>> ]_vars

C3_Witness ==
  /\ ADMIN_SECRET = "" /\ res.kind = "delall" /\ res.status = 503 /\ res.header = <<"">>

\* C4: with a secret configured, an admin request whose header differs from it (absent and
\* empty included) is answered 401 without entering the handler or changing a product; one
\* whose header equals it enters the handler; and the product collections change only in
\* steps of requests that carry the secret.
C4_SecretGuard ==
  [][ ADMIN_SECRET # ""
        => /\ (Taken /\ TakenReq.kind \in AdminKinds)
                => IF TakenReq.header = <<ADMIN_SECRET>>
                   THEN (Answered /\ res'.kind = TakenReq.kind) => res'.status \in {200, 201, 400}
                   ELSE /\ Answered /\ res'.status = 401 /\ res'.kind = TakenReq.kind
                        /\ DOMAIN res'.sent = {} /\ res'.param = ""
                        /\ UNCHANGED reqs
                        /\ ProductsUnchanged
           /\ ~ProductsUnchanged
                => (Answered /\ res'.kind \in AdminKinds /\ res'.header = <<ADMIN_SECRET>>) ]_vars

C4_Witness ==
  /\ ADMIN_SECRET = "s3cret" /\ res.kind = "delone" /\ res.status = 401
  /\ res.header = <<"S3CRET">> /\ ~NoProducts

\* the fields of the entries of the active orders collection
ActiveOrders == IF isDbAvailable THEN [i \in 1..Len(dbOrders) |-> dbOrders[i].data]
                ELSE inMemoryOrders

\* C5: when create-order answers 200, the active orders collection (the store's when
\* storage is available, the in-memory one otherwise) has gained exactly one entry, behind
\* the earlier entries, which are unchanged; the new entry has status "Processing" whatever
\* the payload carried, and a createdAt not earlier than the arrival of the request.
C5_OrderRecorded ==
  [][ (Answered /\ res'.kind = "order" /\ res'.status = 200)
        => /\ Len(ActiveOrders') = Len(ActiveOrders) + 1
           /\ SubSeq(ActiveOrders', 1, Len(ActiveOrders)) = ActiveOrders
           /\ ActiveOrders'[Len(ActiveOrders')].status = "Processing"
           /\ ActiveOrders'[Len(ActiveOrders')].createdAt >= res'.arrived ]_vars

C5_Witness ==
  /\ res.kind = "order" /\ res.status = 200
  /\ "status" \in DOMAIN res.sent /\ res.sent.status = "Shipped" /\ res.sent.createdAt < res.arrived
  /\ Len(ActiveOrders) = 2

\* C6: when storage is available and the insert of an order fails (the awaited call ends
\* without a new document), the answer is 500, nothing is put in the in-memory orders, no
\* order is recorded and the storage mode stays as it was.
C6_OrderNoFallback ==
  [][ \A s \in Slots :
        (isDbAvailable /\ reqs[s].kind = "order" /\ reqs[s].pc = "await_add"
           /\ reqs'[s].pc = "idle" /\ Len(dbOrders') = Len(dbOrders))
        => /\ Answered /\ res'.kind = "order" /\ res'.status = 500
           /\ UNCHANGED <<inMemoryOrders, dbOrders, isDbAvailable>> ]_vars

C6_Witness ==
  /\ isDbAvailable /\ res.kind = "order" /\ res.status = 500
  /\ Len(dbOrders) = 1 /\ Len(inMemoryOrders) = 0

\* the store's documents as list items, in some order
IsListingOf(items, coll) ==
  /\ Len(items) = Len(coll)
  /\ \A i \in 1..Len(coll) : \E j \in 1..Len(items) : items[j] = Spread([id |-> coll[i].id], coll[i].data)
  /\ \A j \in 1..(Len(items) - 1) : items[j].createdAt >= items[j + 1].createdAt

\* C7: a product list is always answered 200: with the store's products, latest first, when
\* storage is available and the query succeeds, and with the in-memory products as they are
\* when storage is unavailable or the query fails; the step changes neither the storage mode
\* nor any collection.
C7_ListAlways200 ==
  [][ /\ (Answered /\ res'.kind = "list")
           => /\ res'.status = 200
              /\ res'.from \in {"store", "memory"}
              /\ ~isDbAvailable => res'.from = "memory"
              /\ res'.from = "store" => IsListingOf(res'.items, dbProducts)
              /\ res'.from = "memory" => res'.items = inMemoryProducts
              /\ UNCHANGED <<isDbAvailable, dbProducts, inMemoryProducts, dbOrders, inMemoryOrders>>
      /\ \A s \in Slots : (reqs[s].kind = "list" /\ reqs'[s].pc = "idle")
           => (Answered /\ res'.kind = "list") ]_vars

C7_Witness ==
  /\ isDbAvailable /\ res.kind = "list" /\ res.status = 200 /\ res.from = "memory"
  /\ Len(res.items) = 1 /\ Len(dbProducts) = 1

\* C8: when delete-all has answered 200 and the next response is that of a list accepted
\* after it (so no product was added in between), the list is empty.
C8_DeleteAllThenEmpty ==
  [][ (Answered /\ res'.kind = "list" /\ res'.seen = res.n
         /\ res.kind = "delall" /\ res.status = 200)
        => Len(res'.items) = 0 ]_vars

\* some product carries the identifier: a document of the store has it as its id when
\* storage is available, an in-memory product has it as its `id` otherwise
Carried(id) ==
  IF isDbAvailable THEN \E i \in 1..Len(dbProducts) : dbProducts[i].id = id
  ELSE \E i \in 1..Len(inMemoryProducts) : inMemoryProducts[i].id = id

\* C9: an authorised delete-one of an identifier that no product carries answers 200 (when
\* storage is available: unless the store call fails) and changes no product collection, so
\* that repeating it meets the same state and gives the same answer.
C9_DeleteMissingNoOp ==
  [][ (Answered /\ res'.kind = "delone" /\ Authorised(res') /\ ~Carried(res'.param)
         /\ (isDbAvailable => res'.from = "store"))
        => (res'.status = 200 /\ ProductsUnchanged) ]_vars

C9_Witness ==
  /\ ~isDbAvailable /\ res.kind = "delone" /\ res.status = 200 /\ Authorised(res)
  /\ Len(inMemoryProducts) = 2 /\ ~Carried(res.param)

\* C10: when an add has answered 201 and the next response is that of a list accepted after
\* it (so nothing was deleted in between), the list contains the returned product: as its
\* first element when it is served from the store, as a member when it is served from the
\* in-memory collection.
C10_AddThenListed ==
  [][ (Answered /\ res'.kind = "list" /\ res'.seen = res.n
         /\ res.kind = "add" /\ res.status = 201)
        => IF res'.from = "store"
           THEN Len(res'.items) > 0 /\ res'.items[1] = res.rec
           ELSE \E i \in 1..Len(res'.items) : res'.items[i] = res.rec ]_vars

\* a request every endpoint accepts: an order, a list, or an admin request that carries the
\* secret (an add with a truthy name and a numeric price)
ValidRequest(r) ==
  \/ r.kind \in {"order", "list"}
  \/ /\ r.kind \in AdminKinds /\ Authorised(r)
     /\ r.kind = "add" => (TruthyName(r.sent) /\ NumericPrice(r.sent))

\* C11: when the Firebase setup fails (malformed JSON, missing key file, rejected
\* credentials) the process runs with storage mode unavailable and no client, and from then
\* on every request is answered in the step that accepts it; a valid one (order, list,
\* authorised valid add, authorised delete-one or delete-all) gets 200 or 201 out of the
\* in-memory collections, and the store's collections stay as they are.
C11_StartupFallback ==
  [][ startup # "ok"
        => /\ ~isDbAvailable /\ db = "null"
           /\ ~isDbAvailable' /\ db' = "null"
           /\ Taken => Answered
           /\ (Answered /\ ValidRequest(res'))
                => /\ res'.status = (IF res'.kind = "add" THEN 201 ELSE 200)
                   /\ res'.from = "memory"
                   /\ res'.kind = "list" => res'.items = inMemoryProducts
                   /\ res'.kind = "add" => inMemoryProducts' = <<res'.rec>> \o inMemoryProducts
                   /\ res'.kind = "delall" => Len(inMemoryProducts') = 0
                   /\ res'.kind = "delone" => Len(inMemoryProducts') <= Len(inMemoryProducts)
                   /\ res'.kind = "order" => Len(inMemoryOrders') = Len(inMemoryOrders) + 1
                   /\ UNCHANGED <<dbProducts, dbOrders>> ]_vars

C11_Witness ==
  /\ startup = "invalid_credentials" /\ res.kind = "delone" /\ res.status = 200
  /\ Authorised(res) /\ Len(inMemoryOrders) = 1 /\ Len(inMemoryProducts) = 1

AwaitPcs == {"await_add", "await_query", "await_get", "await_commit", "await_delete"}

\* C12: the storage mode and the client are the same in every state as after startup: no
\* step changes them, whatever store call fails in it; and in available mode every request
\* accepted, also right after a failed store call, is either answered by the guard or the
\* validation (401, 503, 400) or suspended at its own store call.
C12_ModeDecidedOnce ==
  [][ /\ isDbAvailable' = isDbAvailable /\ db' = db
      /\ isDbAvailable = (startup = "ok")
      /\ (isDbAvailable /\ Taken)
           => IF Answered THEN res'.status \in {400, 401, 503}
              ELSE \E s \in Slots : reqs[s].pc = "idle" /\ reqs'[s].pc \in AwaitPcs ]_vars

C12_Witness ==
  /\ isDbAvailable /\ res.kind = "list" /\ res.status = 200 /\ res.from = "memory"
  /\ \E s \in Slots : reqs[s].kind = "list" /\ reqs[s].pc = "await_query" /\ reqs[s].seen = res.n

\* C13: in unavailable mode no handler calls the client: no request is ever suspended at a
\* store call, the store's collections and its id counter never change, every response
\* comes from the in-memory collections (or from the guard or the validation), and a list
\* returns the in-memory products.
C13_NoStoreWhenUnavailable ==
  [][ ~isDbAvailable
        => /\ \A s \in Slots : reqs[s].pc = "idle" /\ reqs'[s].pc = "idle"
           /\ UNCHANGED <<dbProducts, dbOrders, autoIds>>
           /\ Answered => res'.from \in {"memory", "none"}
           /\ (Answered /\ res'.from = "none") => res'.status \in {400, 401, 503}
           /\ (Answered /\ res'.kind = "list") => res'.items = inMemoryProducts ]_vars

C13_Witness ==
  /\ ~isDbAvailable /\ res.kind = "delall" /\ res.status = 200 /\ res.from = "memory"
  /\ Len(inMemoryOrders) = 2 /\ Len(dbOrders) = 0

\* C14: when storage is available and the awaited insert of a product ends without a new
\* document, the answer is 201 with the entry that the step puts at the head of the
\* in-memory products; the earlier entries follow it unchanged and in their order, the entry
\* has the submitted fields, and the store's products are as they were.
C14_AddFallsBack ==
  [][ \A s \in Slots :
        (isDbAvailable /\ reqs[s].kind = "add" /\ reqs[s].pc = "await_add"
           /\ reqs'[s].pc = "idle" /\ Len(dbProducts') = Len(dbProducts))
        => /\ Answered /\ res'.kind = "add" /\ res'.status = 201
           /\ Len(inMemoryProducts') = Len(inMemoryProducts) + 1
           /\ SubSeq(inMemoryProducts', 2, Len(inMemoryProducts')) = inMemoryProducts
           /\ inMemoryProducts'[1] = res'.rec
           /\ \A f \in (DOMAIN reqs[s].sent) \ {"id", "createdAt"} : res'.rec[f] = reqs[s].sent[f]
           /\ UNCHANGED dbProducts ]_vars

C14_Witness ==
  /\ isDbAvailable /\ res.kind = "add" /\ res.status = 201 /\ res.from = "memory"
  /\ Len(inMemoryProducts) = 2 /\ inMemoryProducts[1] # inMemoryProducts[2]
  /\ inMemoryProducts[1] = res.rec /\ Len(dbProducts) = 1

\* C15: in available mode a delete-one or delete-all that carries the secret ends with 500
\* and the store's products as they were, or with 200 and the store's products without the
\* document of the given id (delete-one) or without the documents of its snapshot
\* (delete-all); and no step other than the answer of an add changes the in-memory products,
\* so what an add put there by fallback stays across every delete.
C15_DeletesNoFallback ==
  [][ isDbAvailable
        => /\ \A s \in Slots :
                (reqs[s].kind \in {"delone", "delall"} /\ reqs[s].pc # "idle" /\ reqs'[s].pc = "idle")
                => /\ Answered /\ res'.kind = reqs[s].kind /\ res'.status \in {200, 500}
                   /\ res'.status = 500 => UNCHANGED dbProducts
                   /\ (res'.status = 200 /\ reqs[s].kind = "delone")
                        => dbProducts' = SelectSeq(dbProducts, LAMBDA d : d.id # reqs[s].param)
                   /\ (res'.status = 200 /\ reqs[s].kind = "delall")
                        => dbProducts' = SelectSeq(dbProducts, LAMBDA d : d.id \notin reqs[s].snap)
                   /\ UNCHANGED inMemoryProducts
           /\ inMemoryProducts' # inMemoryProducts
                => (Answered /\ res'.kind = "add" /\ res'.status = 201) ]_vars

C15_Witness ==
  /\ isDbAvailable /\ res.kind = "delall" /\ res.status = 200 /\ Authorised(res)
  /\ Len(inMemoryProducts) = 1 /\ Len(dbProducts) = 0 /\ autoIds = 1

\* C16: in unavailable mode, when a delete-one that carries the secret answers 200, no
\* in-memory product has the given identifier as its `id`, and the products with another
\* `id` are all still there, in their order.
C16_DeleteOneRemovesId ==
  [][ (~isDbAvailable /\ Answered /\ res'.kind = "delone" /\ res'.status = 200
         /\ Authorised(res'))
        => /\ \A i \in 1..Len(inMemoryProducts') : inMemoryProducts'[i].id # res'.param
           /\ LET given == res'.param
              IN  inMemoryProducts' = SelectSeq(inMemoryProducts, LAMBDA p : p.id # given) ]_vars

IsPrefix(a, b) == Len(a) <= Len(b) /\ SubSeq(b, 1, Len(a)) = a

\* C17: in every step both orders collections keep their entries as a prefix (the in-memory
\* one grows by at most one entry, at its tail); they change only in the answer 200 of an
\* order intake; the steps of list, add and delete requests leave them as they are; and the
\* steps of an order intake leave both products collections as they are.
C17_OrdersAppendOnly ==
  [][ /\ IsPrefix(inMemoryOrders, inMemoryOrders')
      /\ Len(inMemoryOrders') <= Len(inMemoryOrders) + 1
      /\ IsPrefix(dbOrders, dbOrders')
      /\ ~(UNCHANGED <<inMemoryOrders, dbOrders>>)
           => (Answered /\ res'.kind = "order" /\ res'.status = 200)
      /\ ((Answered /\ res'.kind \in AdminKinds \cup {"list"})
             \/ (Taken /\ TakenReq.kind \in AdminKinds \cup {"list"}))
           => UNCHANGED <<inMemoryOrders, dbOrders>>
      /\ ((Answered /\ res'.kind = "order") \/ (Taken /\ TakenReq.kind = "order"))
           => ProductsUnchanged ]_vars

C17_Witness ==
  /\ ~isDbAvailable /\ res.kind = "delall" /\ res.status = 200 /\ res.from = "memory"
  /\ Len(inMemoryOrders) = 1 /\ accepted = 3

Ids(coll) == {d.id : d \in Range(coll)}

\* C18: in available mode a delete-all takes its snapshot in one step that changes no
\* product, keeps that snapshot until it ends, and its answer 200 comes in the one step in
\* which exactly the documents of the snapshot leave the store: a document that is not in
\* the snapshot (one inserted by an add since) is still there; an answer 500 leaves the
\* store as it was; and a list served from the store returns the documents of the store of
\* one state, so never a part of a snapshot that delete-all is deleting.
C18_DeleteAllAtomic ==
  [][ isDbAvailable
        => /\ \A s \in Slots :
                reqs[s].kind = "delall"
                => /\ (reqs[s].pc = "await_get" /\ reqs'[s].pc = "await_commit")
                        => (reqs'[s].snap = Ids(dbProducts) /\ UNCHANGED dbProducts)
                   /\ (reqs[s].pc = "await_commit" /\ reqs'[s].pc = "await_commit")
                        => reqs'[s].snap = reqs[s].snap
                   /\ (reqs[s].pc = "await_commit" /\ reqs'[s].pc = "idle" /\ res'.status = 200)
                        => /\ Answered /\ res'.kind = "delall"
                           /\ Ids(dbProducts') = Ids(dbProducts) \ reqs[s].snap
                           /\ \A d \in Range(dbProducts) :
                                d.id \notin reqs[s].snap => d \in Range(dbProducts')
                   /\ (reqs[s].pc # "idle" /\ reqs'[s].pc = "idle" /\ res'.status = 500)
                        => UNCHANGED dbProducts
           /\ (Answered /\ res'.kind = "list" /\ res'.from = "store")
                => (IsListingOf(res'.items, dbProducts) /\ UNCHANGED dbProducts) ]_vars

C18_Witness ==
  /\ isDbAvailable /\ res.kind = "delall" /\ res.status = 200
  /\ Len(dbProducts) = 1 /\ autoIds = 2

InFlight == {s \in Slots : reqs[s].pc # "idle"}

\* C19: every accepted request is either suspended at a store call or has been answered
\* once; while requests are suspended, a further request of any kind can be accepted (up
\* to MaxRequests requests, MaxInFlight at a time), and each suspended request can go on as
\* soon as its own store call returns or throws, whatever the other requests are doing.
C19_HungCallBlocksOnlyItself ==
  /\ accepted = res.n + Cardinality(InFlight)
  /\ (accepted < MaxRequests /\ FreeSlots # {})
       => /\ ENABLED (\E s \in Slots : CreateOrder(s))
          /\ ENABLED (\E s \in Slots : ListProducts(s))
          /\ ENABLED (\E s \in Slots : AddProduct(s))
          /\ ENABLED (\E s \in Slots : DeleteAll(s))
          /\ ENABLED (\E s \in Slots : DeleteOne(s))
  /\ \A s \in InFlight :
       /\ ENABLED (CreateOrderSaved(s) \/ ListProductsFetched(s) \/ AddProductSaved(s)
                     \/ DeleteAllFetched(s) \/ DeleteAllCommitted(s) \/ DeleteOneDone(s))
       /\ ENABLED (CreateOrderFailed(s) \/ ListProductsFailed(s) \/ AddProductFellBack(s)
                     \/ DeleteAllFailed(s) \/ DeleteOneFailed(s))

C19_Witness ==
  /\ reqs[1].kind = "list" /\ reqs[1].pc = "await_query" /\ reqs[1].seen = 0
  /\ res.n = 2 /\ res.kind = "add" /\ res.status = 201 /\ res.from = "store"
  /\ Len(dbOrders) = 1

\* C20: in unavailable mode, when create-order answers 200, the `orderId` of the answer is
\* the `id` of the entry that the step appended to the in-memory orders.
C20_OrderIdIsStoredId ==
  [][ (~isDbAvailable /\ Answered /\ res'.kind = "order" /\ res'.status = 200)
        => /\ Len(inMemoryOrders') = Len(inMemoryOrders) + 1
           /\ inMemoryOrders'[Len(inMemoryOrders')].id = res'.orderId ]_vars

====
